---- MODULE Spec2Model ----
(***************************************************************************)
(* Model of the Cloud Code Bot request dispatcher (src/src/index.ts and    *)
(* the full three-service variant in src/unnamed/part_000).                *)
(*                                                                         *)
(* Strings are sequences of one-character strings, so that startsWith,     *)
(* slice, replace, btoa and the URL parser's percent-encoding are computed *)
(* the way the code computes them.  Every route of handleFetch issues at   *)
(* most one collaborator call that reads or writes a store, so a request   *)
(* takes effect atomically at that call and is modelled as one action.     *)
(***************************************************************************)
EXTENDS Integers, Sequences, FiniteSets, TLC

VARIABLES
    env,      \* the worker's bindings: SERVER_USERNAME, SERVER_PASSWORD
    kv,       \* env.STORAGE: key -> stored text
    files,    \* env.FILES: key -> [body, contentType]
    db,       \* env.DB: [tables, rows]
    now,      \* the clock read by Date.now()
    req,      \* the request handled last
    resp,     \* what handleFetch returned (or threw) for it
    calls     \* the collaborator calls issued on behalf of req

vars == <<env, kv, files, db, now, req, resp, calls>>

-----------------------------------------------------------------------------
(* Bounds of the model *)

MaxCredLen == 2
MaxNow == 2
MaxRows == 2

-----------------------------------------------------------------------------
(* JavaScript values and strings *)

\* A binding or header that may be absent (undefined / null).
Undefined == [def |-> FALSE, str |-> <<>>]
Val(s) == [def |-> TRUE, str |-> s]

\* `!x` for a string-or-undefined x: undefined, null and "" are falsy.
Falsy(x) == ~x.def \/ x.str = <<>>

\* `${x}` inside a template literal: undefined prints as "undefined".
Template(x) == IF x.def THEN x.str ELSE <<"u", "n", "d", "e", "f", "i", "n", "e", "d">>

\* s.startsWith(p)
StartsWith(s, p) == Len(s) >= Len(p) /\ SubSeq(s, 1, Len(p)) = p

\* s.slice(n)
Slice(s, n) == SubSeq(s, n + 1, Len(s))

\* s.replace(pat, ''): the first occurrence of pat is removed.
ReplaceFirst(s, pat) ==
    LET hits == {i \in 1..(Len(s) - Len(pat) + 1) : SubSeq(s, i, i + Len(pat) - 1) = pat}
    IN  IF hits = {} THEN s
        ELSE LET i == CHOOSE h \in hits : \A g \in hits : h <= g
             IN  SubSeq(s, 1, i - 1) \o SubSeq(s, i + Len(pat), Len(s))

\* All strings over an alphabet up to a length.
RECURSIVE StringsOfLen(_, _)
StringsOfLen(alphabet, n) ==
    IF n = 0 THEN {<<>>}
    ELSE {<<c>> \o s : c \in alphabet, s \in StringsOfLen(alphabet, n - 1)}

StringsUpTo(alphabet, n) == UNION {StringsOfLen(alphabet, k) : k \in 0..n}

-----------------------------------------------------------------------------
(* btoa *)

\* The code unit of each character a credential is built from.
CharCode(c) ==
    CASE c = ":" -> 58
      [] c = "a" -> 97
      [] c = "d" -> 100
      [] c = "e" -> 101
      [] c = "f" -> 102
      [] c = "i" -> 105
      [] c = "n" -> 110
      [] c = "u" -> 117

B64Alphabet ==
    << "A", "B", "C", "D", "E", "F", "G", "H", "I", "J", "K", "L", "M",
       "N", "O", "P", "Q", "R", "S", "T", "U", "V", "W", "X", "Y", "Z",
       "a", "b", "c", "d", "e", "f", "g", "h", "i", "j", "k", "l", "m",
       "n", "o", "p", "q", "r", "s", "t", "u", "v", "w", "x", "y", "z",
       "0", "1", "2", "3", "4", "5", "6", "7", "8", "9", "+", "/" >>

B64Char(n) == B64Alphabet[n + 1]

\* Base64 of a sequence of bytes: three bytes become four characters, the
\* last group is padded with "=".
RECURSIVE B64(_)
B64(bytes) ==
    IF Len(bytes) = 0 THEN <<>>
    ELSE IF Len(bytes) = 1 THEN
        << B64Char(bytes[1] \div 4), B64Char((bytes[1] % 4) * 16), "=", "=" >>
    ELSE IF Len(bytes) = 2 THEN
        << B64Char(bytes[1] \div 4),
           B64Char((bytes[1] % 4) * 16 + bytes[2] \div 16),
           B64Char((bytes[2] % 16) * 4), "=" >>
    ELSE
        << B64Char(bytes[1] \div 4),
           B64Char((bytes[1] % 4) * 16 + bytes[2] \div 16),
           B64Char((bytes[2] % 16) * 4 + bytes[3] \div 64),
           B64Char(bytes[3] % 64) >> \o B64(SubSeq(bytes, 4, Len(bytes)))

btoa(s) == B64([i \in 1..Len(s) |-> CharCode(s[i])])

-----------------------------------------------------------------------------
(* Responses *)

\* new Response(body, {status, headers}); headers is a set of <<name, value>>.
Response(status, headers, bodyKind, body) ==
    [kind |-> "response", status |-> status, headers |-> headers,
     bodyKind |-> bodyKind, body |-> body]

\* verifyBasicAuth's `null`: the request may proceed.
Null == [kind |-> "null", status |-> 0, headers |-> {}, bodyKind |-> "none", body |-> ""]

\* An exception that leaves handleFetch: the hosting transport answers.
Fault(what) == [kind |-> "fault", status |-> 0, headers |-> {}, bodyKind |-> "fault", body |-> what]

JsonHeaders == {<<"Content-Type", "application/json">>}

-----------------------------------------------------------------------------
(* verifyBasicAuth *)

BasicPrefix == <<"B", "a", "s", "i", "c", " ">>

\* verifyBasicAuth with the challenge header left off the first 401.
VerifyBasicAuthNoChallenge(e, r) ==
    LET username == e.SERVER_USERNAME
        password == e.SERVER_PASSWORD
    IN  IF Falsy(password) THEN Null
        ELSE LET authorization == r.authorization
                 expected == btoa(Template(username) \o <<":">> \o Template(password))
             IN  IF ~(authorization.def /\ StartsWith(authorization.str, BasicPrefix))
                    \/ Slice(authorization.str, 6) # expected
                 THEN Response(401, {}, "text", "Unauthorized")
                 ELSE Null

\* verifyBasicAuth testing `password === undefined` instead of `!password`.
VerifyBasicAuthStrictUndefined(e, r) ==
    LET username == e.SERVER_USERNAME
        password == e.SERVER_PASSWORD
    IN  IF ~password.def THEN Null
        ELSE LET authorization == r.authorization
             IN  IF ~(authorization.def /\ StartsWith(authorization.str, BasicPrefix))
                 THEN Response(401, {<<"WWW-Authenticate", "Basic realm=\"Agent\"">>},
                               "text", "Unauthorized")
                 ELSE LET expected == btoa(Template(username) \o <<":">> \o Template(password))
                          provided == Slice(authorization.str, 6)
                      IN  IF provided # expected
                          THEN Response(401, {}, "text", "Unauthorized")
                          ELSE Null

VerifyBasicAuth(e, r) ==
    LET username == e.SERVER_USERNAME
        password == e.SERVER_PASSWORD
    IN  IF Falsy(password) THEN Null
        ELSE LET authorization == r.authorization
             IN  IF ~(authorization.def /\ StartsWith(authorization.str, BasicPrefix))
                 THEN Response(401, {<<"WWW-Authenticate", "Basic realm=\"Agent\"">>},
                               "text", "Unauthorized")
                 ELSE LET expected == btoa(Template(username) \o <<":">> \o Template(password))
                          provided == Slice(authorization.str, 6)
                      IN  IF provided # expected
                          THEN Response(401, {}, "text", "Unauthorized")
                          ELSE Null

-----------------------------------------------------------------------------
(* new URL(request.url).pathname *)

\* The URL parser ends the path at "?" or "#" and percent-encodes a space;
\* it never decodes a percent-escape.
RECURSIVE Pathname(_)
Pathname(u) ==
    IF u = <<>> THEN <<>>
    ELSE IF Head(u) \in {"?", "#"} THEN <<>>
    ELSE (IF Head(u) = " " THEN <<"%", "2", "0">> ELSE <<Head(u)>>) \o Pathname(Tail(u))

PathStatus == <<"/", "a", "p", "i", "/", "s", "t", "a", "t", "u", "s">>
PathKv == <<"/", "a", "p", "i", "/", "k", "v">>
PathKvPrefix == <<"/", "a", "p", "i", "/", "k", "v", "/">>
PathFiles == <<"/", "a", "p", "i", "/", "f", "i", "l", "e", "s">>
PathFilesPrefix == <<"/", "a", "p", "i", "/", "f", "i", "l", "e", "s", "/">>
PathDbQuery == <<"/", "a", "p", "i", "/", "d", "b", "/", "q", "u", "e", "r", "y">>
PathDbInit == <<"/", "a", "p", "i", "/", "d", "b", "/", "i", "n", "i", "t">>
UploadsPrefix == <<"u", "p", "l", "o", "a", "d", "s", "/">>

-----------------------------------------------------------------------------
(* JSON.stringify and number formatting *)

DigitChar(d) == <<"0", "1", "2", "3", "4", "5", "6", "7", "8", "9">>[d + 1]

\* String(n) for a non-negative integer, as in `${Date.now()}`.
RECURSIVE Digits(_)
Digits(n) == IF n < 10 THEN <<DigitChar(n)>> ELSE Digits(n \div 10) \o <<DigitChar(n % 10)>>

\* A text is a sequence of runs <<c, n>>: character c repeated n times, so that
\* a payload of many megabytes has a length without being spelled out.
Lit(s) == [i \in 1..Len(s) |-> <<s[i], 1>>]

RECURSIVE TextLen(_)
TextLen(t) == IF t = <<>> THEN 0 ELSE Head(t)[2] + TextLen(Tail(t))

\* JSON values: null, a boolean, a non-negative integer, or the string made of
\* character ch repeated len times.
JsonNull == [t |-> "null"]
JsonBool(b) == [t |-> "bool", b |-> b]
JsonNum(n) == [t |-> "num", n |-> n]
JsonStr(ch, len) == [t |-> "str", ch |-> ch, len |-> len]

JSONStringify(v) ==
    CASE v.t = "null" -> Lit(<<"n", "u", "l", "l">>)
      [] v.t = "bool" -> IF v.b THEN Lit(<<"t", "r", "u", "e">>)
                         ELSE Lit(<<"f", "a", "l", "s", "e">>)
      [] v.t = "num" -> Lit(Digits(v.n))
      [] v.t = "str" -> <<<<"\"", 1>>>>
                        \o (IF v.len > 0 THEN <<<<v.ch, v.len>>>> ELSE <<>>)
                        \o <<<<"\"", 1>>>>

-----------------------------------------------------------------------------
(* FREE_TIER_LIMITS and checkLimits *)

KvMaxValueSize == 25 * 1024 * 1024
R2MaxFileSize == 300 * 1024 * 1024

\* checkLimits(type, size): a 413 response when the size is over the limit.
\* No route of handleFetch calls it.
CheckLimits(type, size) ==
    IF type = "kv" /\ size > KvMaxValueSize
    THEN Response(413, {}, "json",
                  [error |-> "KV value too large", limit |-> KvMaxValueSize, received |-> size])
    ELSE IF type = "r2" /\ size > R2MaxFileSize
    THEN Response(413, {}, "json",
                  [error |-> "File too large", limit |-> R2MaxFileSize, received |-> size])
    ELSE Null

-----------------------------------------------------------------------------
(* The collaborators *)

\* env.STORAGE.put(key, text) / env.STORAGE.get(key)
KvPut(K, key, text) == [k \in DOMAIN K \cup {key} |-> IF k = key THEN text ELSE K[k]]
KvHas(K, key) == key \in DOMAIN K

\* env.FILES.put(key, stream, {httpMetadata: {contentType}}) / env.FILES.get(key)
FilesPut(F, key, body, contentType) ==
    [k \in DOMAIN F \cup {key} |->
        IF k = key THEN [body |-> body, contentType |-> contentType] ELSE F[k]]
FilesHas(F, key) == key \in DOMAIN F

\* The statements a caller sends to env.DB.
SqlSelectOne == "SELECT 1"
SqlSelectLogs == "SELECT * FROM logs WHERE id > ?"
SqlInsertLog == "INSERT INTO logs (level, message) VALUES (?, ?)"
SqlMalformed == "SELEC 1"

SqlPlaceholders(sql) ==
    CASE sql = SqlSelectOne -> 0
      [] sql = SqlSelectLogs -> 1
      [] sql = SqlInsertLog -> 2
      [] OTHER -> 0

\* env.DB.prepare(sql).bind(...params).all(): the engine throws an Error with
\* a message on a statement it cannot parse, on a missing table and on a wrong
\* number of bind values; otherwise it returns the result.
DbAll(D, sql, params) ==
    IF sql = SqlMalformed
    THEN [ok |-> FALSE, message |-> "syntax error", db |-> D, rows |-> 0]
    ELSE IF Len(params) # SqlPlaceholders(sql)
    THEN [ok |-> FALSE, message |-> "wrong number of parameter bindings", db |-> D, rows |-> 0]
    ELSE IF sql \in {SqlSelectLogs, SqlInsertLog} /\ "logs" \notin D.tables
    THEN [ok |-> FALSE, message |-> "no such table: logs", db |-> D, rows |-> 0]
    ELSE IF sql = SqlInsertLog
    THEN [ok |-> TRUE, message |-> "", db |-> [D EXCEPT !.rows = @ + 1], rows |-> 0]
    ELSE IF sql = SqlSelectLogs
    THEN [ok |-> TRUE, message |-> "", db |-> D, rows |-> D.rows]
    ELSE [ok |-> TRUE, message |-> "", db |-> D, rows |-> 1]

\* env.DB.exec(CREATE TABLE IF NOT EXISTS logs ...; CREATE TABLE IF NOT EXISTS users ...)
DbExecInit(D) == [D EXCEPT !.tables = @ \cup {"logs", "users"}]

-----------------------------------------------------------------------------
(* handleFetch *)

\* What one run of handleFetch leaves behind: its response (or the exception
\* it threw), the three stores, and the collaborator calls it issued.
Out(response, K, F, D, issued) ==
    [resp |-> response, kv |-> K, files |-> F, db |-> D, calls |-> issued]

\* await request.json(): rejects unless the body is JSON text.  The routes
\* destructure the result, which throws on a JSON null.
RequestJsonOk(r) == r.body.kind = "json"

\* POST /api/kv
KvStore(r, K, F, D) ==
    IF ~RequestJsonOk(r) THEN Out(Fault("request.json"), K, F, D, <<>>)
    ELSE LET key == r.body.json.key
             value == r.body.json.value
         IN  Out(Response(200, JsonHeaders, "json", [success |-> TRUE, key |-> key]),
                 KvPut(K, key, JSONStringify(value)), F, D, <<"STORAGE.put">>)

\* GET /api/kv/:key
KvRetrieve(pathname, K, F, D) ==
    LET key == ReplaceFirst(pathname, PathKvPrefix)
    IN  IF ~KvHas(K, key) \/ TextLen(K[key]) = 0
        THEN Out(Response(404, {}, "text", "Not found"), K, F, D, <<"STORAGE.get">>)
        ELSE Out(Response(200, JsonHeaders, "raw", K[key]), K, F, D, <<"STORAGE.get">>)

\* POST /api/files
FilesStore(r, t, K, F, D) ==
    IF r.body.kind # "form" THEN Out(Fault("request.formData"), K, F, D, <<>>)
    ELSE LET file == r.body.file
         IN  IF file.kind = "absent" \/ (file.kind = "text" /\ file.text = <<>>)
             THEN Out(Response(400, {}, "text", "No file provided"), K, F, D, <<>>)
             ELSE IF file.kind = "text"
             THEN Out(Fault("file.stream is not a function"), K, F, D, <<>>)
             ELSE LET key == UploadsPrefix \o Digits(t) \o <<"-">> \o file.name
                  IN  Out(Response(200, JsonHeaders, "json",
                                   [success |-> TRUE, key |-> key,
                                    url |-> PathFilesPrefix \o key]),
                          K, FilesPut(F, key, file.bytes, file.type), D, <<"FILES.put">>)

\* GET /api/files/:key
FilesRetrieve(pathname, K, F, D) ==
    LET key == ReplaceFirst(pathname, PathFilesPrefix)
    IN  IF ~FilesHas(F, key)
        THEN Out(Response(404, {}, "text", "File not found"), K, F, D, <<"FILES.get">>)
        ELSE Out(Response(200, {<<"content-type", F[key].contentType>>,
                                <<"etag", F[key].body>>},
                          "bytes", F[key].body),
                 K, F, D, <<"FILES.get">>)

\* POST /api/db/query
DbQuery(r, K, F, D) ==
    IF ~RequestJsonOk(r) THEN Out(Fault("request.json"), K, F, D, <<>>)
    ELSE LET sql == r.body.json.sql
             params == r.body.json.params
             result == DbAll(D, sql, params)
         IN  IF result.ok
             THEN Out(Response(200, JsonHeaders, "json",
                               [success |-> TRUE, result |-> result.rows]),
                      K, F, result.db, <<"DB.all">>)
             ELSE Out(Response(400, JsonHeaders, "json",
                               [success |-> FALSE, error |-> result.message]),
                      K, F, D, <<"DB.all">>)

\* POST /api/db/init
DbInit(K, F, D) ==
    Out(Response(200, JsonHeaders, "json",
                 [success |-> TRUE, message |-> "Database initialized"]),
        K, F, DbExecInit(D), <<"DB.exec">>)

\* The routes of handleFetch in their order, after authentication.
Route(r, t, K, F, D) ==
    LET pathname == Pathname(r.url)
    IN  IF pathname = PathStatus
        THEN Out(Response(200, JsonHeaders, "json", [status |-> "running"]), K, F, D, <<>>)
        ELSE IF pathname = PathKv /\ r.method = "POST" THEN KvStore(r, K, F, D)
        ELSE IF StartsWith(pathname, PathKvPrefix) /\ r.method = "GET"
        THEN KvRetrieve(pathname, K, F, D)
        ELSE IF pathname = PathFiles /\ r.method = "POST" THEN FilesStore(r, t, K, F, D)
        ELSE IF StartsWith(pathname, PathFilesPrefix) /\ r.method = "GET"
        THEN FilesRetrieve(pathname, K, F, D)
        ELSE IF pathname = PathDbQuery /\ r.method = "POST" THEN DbQuery(r, K, F, D)
        ELSE IF pathname = PathDbInit /\ r.method = "POST" THEN DbInit(K, F, D)
        ELSE Out(Response(200, JsonHeaders, "json", [message |-> "Cloud Code Bot Free Edition"]),
                 K, F, D, <<>>)

\* handleFetch running the route before it looks at the authentication result.
HandleFetchRouteFirst(e, r, t, K, F, D) ==
    LET authError == VerifyBasicAuth(e, r)
        out == Route(r, t, K, F, D)
    IN  IF authError.kind # "null" THEN [out EXCEPT !.resp = authError] ELSE out

HandleFetch(e, r, t, K, F, D) ==
    LET authError == VerifyBasicAuth(e, r)
    IN  IF authError.kind # "null" THEN Out(authError, K, F, D, <<>>)
        ELSE Route(r, t, K, F, D)

-----------------------------------------------------------------------------
(* Requests *)

NoBody == [kind |-> "none"]
MalformedBody == [kind |-> "text"]
JsonBody(obj) == [kind |-> "json", json |-> obj]
FormBody(file) == [kind |-> "form", file |-> file]

FormNoFile == [kind |-> "absent"]
FormTextField(text) == [kind |-> "text", text |-> text]
FormFile(name, type, bytes) == [kind |-> "file", name |-> name, type |-> type, bytes |-> bytes]

\* A caller's credentials: none, or the pair it puts in its Authorization
\* header under a scheme.
NoCred == [scheme |-> "none", user |-> <<>>, pass |-> <<>>]
Cred(scheme, u, p) == [scheme |-> scheme, user |-> u, pass |-> p]

BearerPrefix == <<"B", "e", "a", "r", "e", "r", " ">>

\* Authorization: <scheme> base64(user:pass)
AuthorizationOf(c) ==
    IF c.scheme = "none" THEN Undefined
    ELSE Val((IF c.scheme = "Basic" THEN BasicPrefix ELSE BearerPrefix)
             \o btoa(c.user \o <<":">> \o c.pass))

\* A request as the worker receives it, sent by a caller holding credentials
\* c; cred and key record what the caller meant (the pair it encoded, the key
\* it addresses).
Request(c, method, url, body, key) ==
    [method |-> method, url |-> url, authorization |-> AuthorizationOf(c), body |-> body,
     cred |-> c, key |-> key]

NoRequest == Request(NoCred, "GET", <<>>, NoBody, <<>>)

-----------------------------------------------------------------------------
(* Actions *)

\* One request handled from arrival to response.
Fetch(r) ==
    LET out == HandleFetch(env, r, now, kv, files, db)
    IN  /\ out.db.rows <= MaxRows
        /\ req' = r
        /\ resp' = out.resp
        /\ calls' = out.calls
        /\ kv' = out.kv
        /\ files' = out.files
        /\ db' = out.db
        /\ UNCHANGED <<env, now>>

\* The clock advances between requests.
Tick ==
    /\ now < MaxNow
    /\ now' = now + 1
    /\ UNCHANGED <<env, kv, files, db, req, resp, calls>>

\* No request is being handled.
Idle == resp.kind = "null"

\* The response goes to the caller; nothing of the request is retained.
Deliver ==
    /\ ~Idle
    /\ req' = NoRequest
    /\ resp' = Null
    /\ calls' = <<>>
    /\ UNCHANGED <<env, kv, files, db, now>>

\* The state of a freshly deployed worker configured with e.
InitWith(e) ==
    /\ env = e
    /\ kv = <<>>
    /\ files = <<>>
    /\ db = [tables |-> {}, rows |-> 0]
    /\ now = 0
    /\ req = NoRequest
    /\ resp = Null
    /\ calls = <<>>

-----------------------------------------------------------------------------
(* Authentication: every configuration against every caller *)

CredChars == {"a", ":"}

\* The strings a credential is drawn from, and the text "undefined".
CredStrings == StringsUpTo(CredChars, MaxCredLen) \cup {Template(Undefined)}

AuthEnvs ==
    {[SERVER_USERNAME |-> u, SERVER_PASSWORD |-> p] :
        u \in {Undefined} \cup {Val(s) : s \in CredStrings},
        p \in {Undefined} \cup {Val(s) : s \in StringsUpTo(CredChars, MaxCredLen)}}

AuthCreds ==
    {NoCred} \cup {Cred(scheme, u, p) : scheme \in {"Basic", "Bearer"},
                                        u \in CredStrings,
                                        p \in StringsUpTo(CredChars, MaxCredLen)}

AuthRequests ==
    {Request(c, method, url, NoBody, <<>>) :
        c \in AuthCreds, method \in {"GET", "POST"},
        url \in {PathStatus, <<"/">>, PathKvPrefix \o <<"a">>}}

InitAuth == \E e \in AuthEnvs : InitWith(e)
FetchAuth == Idle /\ \E r \in AuthRequests : Fetch(r)
NextAuth == FetchAuth \/ Deliver
SpecAuth == InitAuth /\ [][NextAuth]_vars

-----------------------------------------------------------------------------
(* The stores: one configured worker, callers with and without its password *)

StoreEnv == [SERVER_USERNAME |-> Val(<<"a">>), SERVER_PASSWORD |-> Val(<<"a">>)]
OpenEnv == [SERVER_USERNAME |-> Undefined, SERVER_PASSWORD |-> Undefined]

GoodCred == Cred("Basic", <<"a">>, <<"a">>)
StoreCreds == {GoodCred, NoCred, Cred("Basic", <<"a">>, <<":">>)}

KvPostRequest(c, key, value) ==
    Request(c, "POST", PathKv, JsonBody([key |-> key, value |-> value]), key)
KvGetRequest(c, key) == Request(c, "GET", PathKvPrefix \o key, NoBody, key)

FilesPostRequest(c, file) == Request(c, "POST", PathFiles, FormBody(file), <<>>)
FilesGetRequest(c, key) == Request(c, "GET", PathFilesPrefix \o key, NoBody, key)

DbQueryRequest(c, sql, params) ==
    Request(c, "POST", PathDbQuery, JsonBody([sql |-> sql, params |-> params]), <<>>)
DbInitRequest(c) == Request(c, "POST", PathDbInit, NoBody, <<>>)

\* Keys: a plain one, one with a space, and one that spells a percent-escape.
KvKeys == {<<"a">>, <<"a", " ", "b">>, <<"a", "%", "2", "0", "b">>}

\* Values: the falsy JSON values, and strings whose JSON text is exactly at
\* and one byte over FREE_TIER_LIMITS.kv.maxValueSize.
KvValues ==
    {JsonNull, JsonBool(FALSE), JsonNum(0), JsonStr("x", 0),
     JsonStr("x", KvMaxValueSize - 2), JsonStr("x", KvMaxValueSize - 1)}

KvRequests ==
    {KvPostRequest(c, k, v) : c \in StoreCreds, k \in KvKeys, v \in KvValues}
    \cup {KvGetRequest(c, k) : c \in StoreCreds, k \in KvKeys}
    \cup {Request(c, "POST", PathKv, MalformedBody, <<>>) : c \in StoreCreds}

InitStore == InitWith(StoreEnv)
FetchKv == Idle /\ \E r \in KvRequests : Fetch(r)
NextKv == FetchKv \/ Deliver
SpecKv == InitStore /\ [][NextKv]_vars

\* Files: two names (one with a space), two contents with their types.
FileNames == {<<"a">>, <<"a", " ", "b">>}
UploadFiles ==
    {FormFile(n, f[1], f[2]) : n \in FileNames,
                               f \in {<<"text/plain", "B1">>, <<"image/png", "B2">>}}
UploadKeys == {UploadsPrefix \o Digits(t) \o <<"-">> \o n : t \in 0..MaxNow, n \in FileNames}

FilesRequests ==
    {FilesPostRequest(c, f) :
        c \in StoreCreds, f \in UploadFiles \cup {FormNoFile, FormTextField(<<"a">>)}}
    \cup {FilesGetRequest(c, k) : c \in StoreCreds, k \in UploadKeys}
    \cup {Request(c, "POST", PathFiles, MalformedBody, <<>>) : c \in StoreCreds}

FetchFiles == Idle /\ \E r \in FilesRequests : Fetch(r)
NextFiles == FetchFiles \/ Deliver \/ Tick
SpecFiles == InitStore /\ [][NextFiles]_vars

\* SQL: each statement with zero, one and two bind values.
SqlStatements == {SqlSelectOne, SqlSelectLogs, SqlInsertLog, SqlMalformed}
SqlParams == {<<>>, <<1>>, <<1, 1>>}

DbRequests ==
    {DbQueryRequest(c, q, ps) : c \in StoreCreds, q \in SqlStatements, ps \in SqlParams}
    \cup {DbInitRequest(c) : c \in StoreCreds}
    \cup {Request(c, "POST", PathDbQuery, MalformedBody, <<>>) : c \in StoreCreds}

FetchDb == Idle /\ \E r \in DbRequests : Fetch(r)
NextDb == FetchDb \/ Deliver
SpecDb == InitStore /\ [][NextDb]_vars

\* The whole dispatcher: every route, with and without a configured password.
AllRequests ==
    {KvPostRequest(c, <<"a">>, v) : c \in StoreCreds, v \in {JsonNull, JsonNum(0)}}
    \cup {KvGetRequest(c, <<"a">>) : c \in StoreCreds}
    \cup {FilesPostRequest(c, f) :
            c \in StoreCreds, f \in {FormFile(<<"a">>, "text/plain", "B1"), FormNoFile}}
    \cup {FilesGetRequest(c, UploadsPrefix \o Digits(t) \o <<"-", "a">>) :
            c \in StoreCreds, t \in 0..MaxNow}
    \cup {DbQueryRequest(c, q, <<1, 1>>) : c \in StoreCreds, q \in {SqlInsertLog, SqlMalformed}}
    \cup {DbInitRequest(c) : c \in StoreCreds}
    \cup {Request(c, "GET", u, NoBody, <<>>) : c \in StoreCreds, u \in {PathStatus, <<"/">>}}

Init == InitWith(StoreEnv) \/ InitWith(OpenEnv)
FetchAll == Idle /\ \E r \in AllRequests : Fetch(r)
Next == FetchAll \/ Deliver \/ Tick
Spec == Init /\ [][Next]_vars

-----------------------------------------------------------------------------
(* Claims about authentication, under SpecAuth *)

\* A request has been handled and its outcome stands in resp.
Handled == resp.kind # "null"

\* The request got past verifyBasicAuth: anything but a 401 answer.
Granted == ~(resp.kind = "response" /\ resp.status = 401)

PasswordConfigured == ~Falsy(env.SERVER_PASSWORD)

\* C1: with a password configured, a caller sending Basic base64(u':p') is
\* granted access if and only if (u', p') equals the configured pair (u, p);
\* any other pair is answered 401.
C1_GrantedIffPairEqual ==
    (Handled /\ PasswordConfigured /\ req.cred.scheme = "Basic")
    => (Granted <=> (/\ env.SERVER_USERNAME = Val(req.cred.user)
                     /\ env.SERVER_PASSWORD = Val(req.cred.pass)))

\* C2: with a password configured, a request with no Authorization header or
\* with one of another scheme is answered 401 with the header
\* WWW-Authenticate: Basic realm="Agent", whatever its path and method.
C2_MissingOrNonBasicChallenged ==
    (Handled /\ PasswordConfigured /\ req.cred.scheme # "Basic")
    => /\ resp.kind = "response"
       /\ resp.status = 401
       /\ <<"WWW-Authenticate", "Basic realm=\"Agent\"">> \in resp.headers

C2_Witness ==
    /\ Handled /\ PasswordConfigured
    /\ req.cred.scheme = "Bearer"
    /\ req.method = "POST"
    /\ env.SERVER_USERNAME = Val(req.cred.user)
    /\ env.SERVER_PASSWORD = Val(req.cred.pass)
    /\ resp.status = 401

\* C3: with no password configured every request is allowed, whatever its
\* headers: handleFetch goes on to routing and never answers 401.
C3_NoPasswordAllowsAll ==
    (Handled /\ ~PasswordConfigured)
    => /\ VerifyBasicAuth(env, req).kind = "null"
       /\ resp.kind = "response"
       /\ resp.status # 401
       /\ resp = Route(req, now, kv, files, db).resp

C3_Witness ==
    /\ Handled /\ ~PasswordConfigured
    /\ env.SERVER_USERNAME = Val(<<"a">>)
    /\ req.cred.scheme = "Basic"
    /\ req.cred.user = <<":">>
    /\ resp.status = 200

-----------------------------------------------------------------------------
(* Claims about the stores *)

\* The caller holds the configured credentials (or none are required).
Authorized ==
    \/ ~PasswordConfigured
    \/ /\ req.cred.scheme = "Basic"
       /\ env.SERVER_USERNAME = Val(req.cred.user)
       /\ env.SERVER_PASSWORD = Val(req.cred.pass)

IsKvPost == req.method = "POST" /\ req.url = PathKv /\ req.body.kind = "json"
IsKvGet == req.method = "GET" /\ req.url = PathKvPrefix \o req.key
IsFilesPost == req.method = "POST" /\ req.url = PathFiles /\ req.body.kind = "form"
IsFilesGet == req.method = "GET" /\ req.url = PathFilesPrefix \o req.key
IsDbQuery == req.method = "POST" /\ req.url = PathDbQuery

\* C4: round trip.  The store holds under K the JSON text of the value last
\* POSTed to K, so an authorized GET /api/kv/K for a key K that has been
\* written answers 200 with exactly that text, for every key and value.
C4_KvRoundTrip ==
    (Handled /\ Authorized /\ IsKvGet /\ KvHas(kv, req.key))
    => /\ resp.kind = "response"
       /\ resp.status = 200
       /\ resp.bodyKind = "raw"
       /\ \E v \in KvValues : kv[req.key] = JSONStringify(v) /\ resp.body = JSONStringify(v)

\* C5: an authorized GET /api/kv/K for a key K that no POST has written
\* answers 404, never a value stored under another key.
C5_UnwrittenKeyNotFound ==
    (Handled /\ Authorized /\ IsKvGet /\ ~KvHas(kv, req.key))
    => /\ resp.kind = "response"
       /\ resp.status = 404

\* C6: an authorized upload without a file field answers 400 and writes
\* nothing; one with a file answers with a key and a url, and an authorized GET
\* of the url of a stored upload answers 200 with the stored bytes and
\* content-type.
C6_UploadRoundTrip ==
    /\ (Handled /\ Authorized /\ IsFilesPost /\ req.body.file.kind = "absent")
       => (resp.kind = "response" /\ resp.status = 400 /\ calls = <<>>)
    /\ (Handled /\ Authorized /\ IsFilesPost /\ req.body.file.kind = "file")
       => /\ resp.kind = "response" /\ resp.status = 200
          /\ FilesHas(files, resp.body.key)
          /\ files[resp.body.key].body = req.body.file.bytes
          /\ files[resp.body.key].contentType = req.body.file.type
          /\ resp.body.url = PathFilesPrefix \o resp.body.key
    /\ (Handled /\ Authorized /\ IsFilesGet /\ FilesHas(files, req.key))
       => /\ resp.kind = "response" /\ resp.status = 200
          /\ resp.bodyKind = "bytes"
          /\ resp.body = files[req.key].body
          /\ <<"content-type", files[req.key].contentType>> \in resp.headers

\* C7: every authorized POST /api/db/query ends in a response of the
\* dispatcher: 400 with success false and a non-empty error when the engine
\* fails, 200 with success true otherwise; no fault reaches the caller.
C7_DbQueryNeverFaults ==
    (Handled /\ Authorized /\ IsDbQuery)
    => /\ resp.kind = "response"
       /\ \/ resp.status = 400 /\ resp.body.success = FALSE /\ resp.body.error # ""
          \/ resp.status = 200 /\ resp.body.success = TRUE

\* C8: an authorized POST /api/kv whose value serializes to more than
\* FREE_TIER_LIMITS.kv.maxValueSize answers 413 and writes nothing; only
\* values within the maximum are in the store.
C8_KvValueSizeEnforced ==
    /\ (Handled /\ Authorized /\ IsKvPost
        /\ TextLen(JSONStringify(req.body.json.value)) > KvMaxValueSize)
       => (resp.kind = "response" /\ resp.status = 413 /\ calls = <<>>)
    /\ \A k \in DOMAIN kv : TextLen(kv[k]) <= KvMaxValueSize

\* C9: when verifyBasicAuth rejects a request, handleFetch answers 401 without
\* issuing any collaborator call and leaves the three stores as they were.
C9_AuthShortCircuits ==
    [][(Idle /\ VerifyBasicAuth(env, req').kind # "null" /\ resp'.kind # "null")
       => /\ resp' = VerifyBasicAuth(env, req')
          /\ resp'.status = 401
          /\ calls' = <<>>
          /\ UNCHANGED <<kv, files, db>>]_vars

C9_Witness ==
    /\ Handled
    /\ resp.status = 401
    /\ req.cred # NoCred
    /\ req.method = "POST" /\ req.url = PathKv /\ req.body.kind = "json"
    /\ ~KvHas(kv, req.body.json.key)
    /\ calls = <<>>

\* C10: two successful uploads never get the same storage key: the key a
\* successful upload is stored under was not in the object store before.
C10_UploadKeysUnique ==
    [][(Idle /\ resp'.kind = "response" /\ resp'.status = 200
        /\ req'.method = "POST" /\ req'.url = PathFiles)
       => ~FilesHas(files, resp'.body.key)]_vars

====
